---- MODULE Spec2Model ----
(***************************************************************************)
(* Boat fan controller, 5-sample firmware                                  *)
(* (src/Software/BoatFanControl/BoatFanControl.ino, production build:      *)
(* neither DEVEL nor BENCH defined).                                       *)
(*                                                                         *)
(* Time.  The firmware reads the clock only through the two differences    *)
(* millis() - lastRead and millis() - lastButton, both computed in         *)
(* unsigned long (32 bit) arithmetic.  The model therefore keeps exactly   *)
(* these two differences, sinceRead and sinceButton, modulo 2^32: a        *)
(* delay d adds d to both, "lastRead = millis()" sets sinceRead to 0 and   *)
(* "lastRead = millis() - CYCLETIME" sets it to CYCLETIME.  All times are  *)
(* milliseconds, with the constants of the source.  Time spent outside     *)
(* myDelay() (instructions, the DHT11 transfer) is taken as 0.  Reads of   *)
(* the button pin that the debounce rejects are not modelled.              *)
(***************************************************************************)
EXTENDS Integers, Sequences, FiniteSets, TLC

(***************************************************************************)
(* Program constants                                                       *)
(***************************************************************************)
FAN_OFF == 0
FAN_LOW == 95
FAN_HIGH == 255
LED_OFF == 0
LED_LOW == 10
LED_HIGH == 255
VIN_LOW == 222
VIN_GOOD == 235
TEMP_TRIGGER == 28
HUMI_TRIGGER == 70
TEMP_RISE == 40
HUMI_RISE == 8
CYCLETIME == 20000
RESUMETIME == 10800000
NSAMPLES == 5
TEMP_CEIL == 40
HUMI_CEIL == 100
VOLT_FLOOR == 100
VOLT_CEIL == 350
POLL == 100
DEBOUNCE == 100
HOLDSTEP == 10
FLASH_ON == 80
FLASH_GAP == 150
SETUP_PAUSE == 250
BUTTON_PAUSE == 1500
SETTLE == 1
LED_SHOW == 10
LED_SHOW_LOW == 100
LED_SHOW_HIGH == 200
FAULT_FLASHES == 10
TMIN_START == 255
VMIN_START == 65534
\* 10-sample firmware (src/Code/BoatFanControl/BoatFanControl.ino)
NSAMPLES10 == 10
KEPT10 == 8

(***************************************************************************)
(* Bounds of the model                                                     *)
(***************************************************************************)
MaxSetupTries == 2      \* iterations of the do..while in setup()
MaxPresses == 2         \* physical presses of the button during one cycle
MaxHold == 1            \* iterations of the hold-until-released loop
IdleCycles == 3         \* cycles followed after the resume time, timer runs
ShortCycles == 2        \* cycles followed after a mode change, sensor runs
VoltSpan == 1           \* voltage averages tried around VIN_LOW..VIN_GOOD
SampleSpan == 3         \* neighbouring sample values tried in the averages
WrapCycles == 1         \* cycles after a mode change with a press, clock runs

(***************************************************************************)
(* Machine arithmetic (ATtiny85: unsigned int 16 bit, unsigned long 32)    *)
(***************************************************************************)
U8(x) == x % 256
U16(x) == x % 65536
\* x modulo 2^32, written with 16-bit halves
U32(x) == (x % 65536) + 65536 * ((x \div 65536) % 65536)

\* An unsigned long register is kept as <<high half, low half>>, each half
\* 16 bits wide; a time that does not wrap is kept in the same form with an
\* unbounded high half.
Word == 65536
Const32(c) == <<c \div Word, c % Word>>
Wrap32(x) == <<x[1] % Word, x[2]>>
\* x + d without wrap, d >= 0
AddW(x, d) == <<x[1] + (x[2] + d) \div Word, (x[2] + d) % Word>>
\* a - b by halves with borrow; the high half is negative when a < b
SubW(a, b) == <<a[1] - b[1] - (IF a[2] < b[2] THEN 1 ELSE 0),
                (a[2] - b[2]) % Word>>
\* unsigned long addition
Add32(x, d) == Wrap32(AddW(x, d))
\* variant: the difference is formed without the wrap and held at 0
Sub32_Held(a, b) ==
    IF a[1] < b[1] \/ (a[1] = b[1] /\ a[2] < b[2]) THEN <<0, 0>>
    ELSE SubW(a, b)
\* unsigned long subtraction: the difference modulo 2^32
Sub32(a, b) == Wrap32(SubW(a, b))
\* the value of x for a comparison with a constant below 2^31: exact below
\* 2^31, and 2^31 - 1 from there on
AsInt(x) == IF x[1] >= Word \div 2
            THEN (Word \div 2 - 1) * Word + (Word - 1)
            ELSE x[1] * Word + x[2]

min(a, b) == IF a < b THEN a ELSE b
max(a, b) == IF a > b THEN a ELSE b
constrain(amt, lo, hi) == IF amt < lo THEN lo ELSE IF amt > hi THEN hi ELSE amt

\* variant: the division is done in integers
RoundThird_Down(x) == x \div 3

\* round(float(x) / 3) for x >= 0: (long)(x / 3 + 0.5)
RoundThird(x) == (2 * x + 3) \div 6

\* flashFast(f, p): f times myDelay(80) and myDelay(150)
flashFast(f) == f * (FLASH_ON + FLASH_GAP)

Modes == {"off", "low", "high"}
Slots == 0 .. (NSAMPLES - 1)

VARIABLES power, led, fan, index, t, h, v, sinceRead, sinceButton,
          tempAvg, humiAvg, voltAvg,
          pressed, resume, ripe, physPresses, statusOK, trail, sinceChange,
          waited, seenPoll, heldSteps, recent, autos, pressAge,
          uptime, lastRead, lastButton, stampUp,
          pc

vars == <<power, led, fan, index, t, h, v, sinceRead, sinceButton,
          tempAvg, humiAvg, voltAvg,
          pressed, resume, ripe, physPresses, statusOK, trail, sinceChange,
          waited, seenPoll, heldSteps, recent, autos, pressAge,
          uptime, lastRead, lastButton, stampUp,
          pc>>

\* the registers of the clock runs: uptime is the time since power-up
\* without wrap, millis() its low 32 bits; stampUp is the uptime at which
\* lastButton was last set
clocks == <<uptime, lastRead, lastButton, stampUp>>
millis == Wrap32(uptime)

(***************************************************************************)
(* switch (power) of loop(): the new mode, the flashes shown, the led      *)
(***************************************************************************)
\* variant: high falls back to low, off is skipped
PowerSwitch_SkipOff(p) == CASE p = "off" -> "low"
                            [] p = "low" -> "high"
                            [] p = "high" -> "low"

PowerSwitch(p) == CASE p = "off" -> "low"
                    [] p = "low" -> "high"
                    [] p = "high" -> "off"

SwitchFlashes(p) == CASE p = "off" -> 4
                      [] p = "low" -> 6
                      [] p = "high" -> 2

SwitchLed(p) == CASE p = "off" -> LED_LOW
                  [] p = "low" -> LED_HIGH
                  [] p = "high" -> LED_OFF

\* variant: the timer is compared with the cycle time
ResumeDue_Early(p, e) == (p # "high") /\ (e > CYCLETIME)
\* variant: only off is resumed
ResumeDue_OffOnly(p, e) == (p = "off") /\ (e > RESUMETIME)
\* variant: the mode is not tested
ResumeDue_Any(p, e) == e > RESUMETIME

\* the auto-resume test, e = millis() - lastButton as the code computes it
ResumeDue(p, e) == (p # "high") /\ (e > RESUMETIME)

\* variant: the press and the timer each rotate the mode
ProcessButton_Each(p, seen, due) ==
    LET p1 == IF seen THEN PowerSwitch(p) ELSE p
    IN  IF due THEN PowerSwitch(p1) ELSE p1

\* "if (...) button = true;" and "if (button) switch (power)": one switch
ProcessButton(p, seen, due) == IF seen \/ due THEN PowerSwitch(p) ELSE p

\* variant: lastButton is set for a press only
Stamped_PressOnly(seen, due) == seen

\* "lastButton = millis()" is inside "if (button)": any processed event
Stamped(seen, due) == seen \/ due

\* variant: the decision reads the mode the cycle started with
ModeAtDecision_Before(before, after) == before

\* the switch comes before the readings and the decision, which read the
\* mode the switch has left
ModeAtDecision(before, after) == after

\* variant: the index wraps one slot early
NextIndex_Short(i) == (i + 1) % (NSAMPLES - 1)

\* index++; index %= 5
NextIndex(i) == (i + 1) % NSAMPLES

\* variant: the reading is saved whatever the status
Stored_Always(ok, buf, i, val) == [buf EXCEPT ![i] = val]
\* variant: a failed reading is saved as 0
Stored_Zeroed(ok, buf, i, val) == [buf EXCEPT ![i] = IF ok THEN val ELSE 0]

\* "Good reading; save it": the array after the status test
Stored(ok, buf, i, val) == IF ok THEN [buf EXCEPT ![i] = val] ELSE buf

\* the led is shown for 10 ms, plus 100 ms in low and 200 ms in high
ShowTime(p) == LED_SHOW + (IF p = "low" THEN LED_SHOW_LOW ELSE 0)
                        + (IF p = "high" THEN LED_SHOW_HIGH ELSE 0)

(***************************************************************************)
(* The wait loop: the time it takes.  Without a press it polls every 100   *)
(* ms until millis() - lastRead >= CYCLETIME; a press seen at poll number  *)
(* k is debounced, held, debounced again, and ends the loop.               *)
(***************************************************************************)
WaitEntered(sr) == sr < CYCLETIME
IdleWait(sr) == IF WaitEntered(sr)
                THEN ((CYCLETIME - sr + POLL - 1) \div POLL) * POLL
                ELSE 0
PollsLeft(sr) == IdleWait(sr) \div POLL
\* variant: after a press the loop still waits for the cycle time
PressWait_Full(k, hold) ==
    max(k * POLL + DEBOUNCE + hold * HOLDSTEP + DEBOUNCE, CYCLETIME)
PressWait(k, hold) == k * POLL + DEBOUNCE + hold * HOLDSTEP + DEBOUNCE
\* the polls at which the model lets a press be seen: the first and the last
PressPolls(sr) == {1, PollsLeft(sr)}

(***************************************************************************)
(* Averages: total minus one maximum and one minimum, divided by 3         *)
(***************************************************************************)
RECURSIVE Total(_, _)
Total(buf, n) == IF n = 0 THEN 0 ELSE U16(Total(buf, n - 1) + buf[n - 1])

\* the running minimum of the loop, begun at start, is the least of start
\* and the first n samples
Lowest(buf, n, start) ==
    LET S == {start} \cup {buf[i] : i \in 0 .. (n - 1)}
    IN  CHOOSE x \in S : \A y \in S : x <= y

\* the running maximum of the loop, begun at 0
Highest(buf, n) ==
    LET S == {0} \cup {buf[i] : i \in 0 .. (n - 1)}
    IN  CHOOSE x \in S : \A y \in S : x >= y

Average(buf, start) ==
    LET tot == U16(U16(Total(buf, NSAMPLES) - Highest(buf, NSAMPLES))
                   - Lowest(buf, NSAMPLES, start))
    IN  U16(RoundThird(tot))

Slots10 == 0 .. (NSAMPLES10 - 1)

\* variant: the trimmed total is divided by the number of samples
Average10_ByCount(buf, start) ==
    LET tot == U16(U16(Total(buf, NSAMPLES10) - Highest(buf, NSAMPLES10))
                   - Lowest(buf, NSAMPLES10, start))
    IN  tot \div NSAMPLES10

\* 10-sample firmware: ceil(tt / 8) with tt an unsigned int, so the
\* division is an integer division and ceil() receives a whole number
Average10(buf, start) ==
    LET tot == U16(U16(Total(buf, NSAMPLES10) - Highest(buf, NSAMPLES10))
                   - Lowest(buf, NSAMPLES10, start))
    IN  tot \div KEPT10

(***************************************************************************)
(* The fan decision                                                        *)
(***************************************************************************)
\* variant: && in place of ||
BatteryLow_And(va, p) == (va < VIN_LOW) /\ (p = "off")

BatteryLow(va, p) == (va < VIN_LOW) \/ (p = "off")

\* variant: the low mode is not tested
BatteryPoor_VoltOnly(va, p) == va < VIN_GOOD

BatteryPoor(va, p) == (va < VIN_GOOD) \/ (p = "low")

\* variant: >= in place of >
Triggered_Inclusive(ta, ha) == (ta >= TEMP_TRIGGER) \/ (ha >= HUMI_TRIGGER)

Triggered(ta, ha) == (ta > TEMP_TRIGGER) \/ (ha > HUMI_TRIGGER)

\* variant: the intermediate value kept in a byte
Ramp_Byte(avg, trigger, rise) ==
    IF avg >= trigger
    THEN min(U8(FAN_LOW + U8(U8(avg - trigger) * rise)), FAN_HIGH)
    ELSE 0
\* variant: the result is not limited to FAN_HIGH
Ramp_NoLimit(avg, trigger, rise) ==
    IF avg >= trigger
    THEN U16(FAN_LOW + U16(U16(avg - trigger) * rise))
    ELSE 0
\* variant: > in place of >=
Ramp_Strict(avg, trigger, rise) ==
    IF avg > trigger
    THEN min(U16(FAN_LOW + U16(U16(avg - trigger) * rise)), FAN_HIGH)
    ELSE 0

Ramp(avg, trigger, rise) ==
    IF avg >= trigger
    THEN min(U16(FAN_LOW + U16(U16(avg - trigger) * rise)), FAN_HIGH)
    ELSE 0

Decide(ta, ha, va, p) ==
    IF BatteryLow(va, p)
    THEN 0
    ELSE IF BatteryPoor(va, p)
         THEN IF Triggered(ta, ha)
              THEN FAN_LOW
              ELSE FAN_OFF
         ELSE U8(max(Ramp(ta, TEMP_TRIGGER, TEMP_RISE),
                     Ramp(ha, HUMI_TRIGGER, HUMI_RISE)))

(***************************************************************************)
(* Sensor readings offered to the model: <<temperature, humidity, ADC>>    *)
(***************************************************************************)
SteadyReadings == { <<30, 60, 238>> }
Readings == { <<24, 60, 238>>, <<55, 120, 400>> }
SeedReadings == { <<24, 60, 238>>, <<30, 60, 50>> }

(***************************************************************************)
(* State after setup(): the first good reading fills all five slots        *)
(***************************************************************************)
SetupTime(tries) == tries * (flashFast(3) + SETUP_PAUSE + SETUP_PAUSE)

\* clocked: whether the run keeps the clock registers (they rest at 0 in
\* the runs that keep the time as differences only)
InitWith(seeds, clocked) ==
    \E r \in seeds, tries \in 1 .. MaxSetupTries :
        /\ power = "high"
        /\ led = 255
        /\ fan = 0
        /\ index = 0
        /\ t = [i \in Slots |-> U8(constrain(r[1], 0, TEMP_CEIL))]
        /\ h = [i \in Slots |-> U8(constrain(r[2], 0, HUMI_CEIL))]
        /\ v = [i \in Slots |-> U16(constrain(r[3], 0, VOLT_CEIL))]
        /\ sinceRead = U32(SetupTime(tries) + CYCLETIME)
        /\ sinceButton = U32(SetupTime(tries))
        /\ tempAvg = 0
        /\ humiAvg = 0
        /\ voltAvg = 0
        /\ pressed = FALSE
        /\ resume = FALSE
        /\ ripe = FALSE
        /\ physPresses = 0
        /\ statusOK = TRUE
        /\ trail = << >>
        /\ sinceChange = SetupTime(tries)
        /\ waited = 0
        /\ seenPoll = 0
        /\ heldSteps = 0
        /\ recent = << <<constrain(r[1], 0, TEMP_CEIL),
                         constrain(r[2], 0, HUMI_CEIL),
                         constrain(r[3], 0, VOLT_CEIL)>> >>
        /\ autos = 0
        /\ pressAge = 0
        /\ uptime = IF clocked THEN Const32(SetupTime(tries)) ELSE <<0, 0>>
        /\ lastRead = IF clocked THEN Sub32(<<0, 0>>, Const32(CYCLETIME))
                      ELSE <<0, 0>>
        /\ lastButton = <<0, 0>>
        /\ stampUp = <<0, 0>>
        /\ pc = "loop"

(***************************************************************************)
(* One execution of loop().                                                *)
(*   presses  physical presses of the button during this cycle             *)
(*   poll     the poll of the wait loop that sees the first press          *)
(*   hold     iterations of the hold-until-released loop                   *)
(*   r, ok    the sensor reading of this cycle and its status              *)
(*   horizon  the model follows a run while the time since the last mode   *)
(*            change is at most horizon                                    *)
(*   history  whether the run records autos and pressAge, the resumes and  *)
(*            the time since the last user press                           *)
(*   sr       millis() - lastRead on entry                                 *)
(*   w        the time spent in the wait loop                              *)
(*   elapsed  millis() - lastButton at the auto-resume test                *)
(* Body is loop() up to the clock: it leaves the time since lastRead and   *)
(* lastButton to the action that uses it.                                  *)
(***************************************************************************)
\* the time from the end of the switch to lastRead = millis()
ReadTime(ok, p) == SETTLE + (IF ok THEN 0 ELSE flashFast(FAULT_FLASHES))
                          + ShowTime(p)

\* the time spent in the wait loop, from millis() - lastRead on entry
Waited(presses, poll, hold, sr) ==
    IF (presses > 0) /\ WaitEntered(sr) THEN PressWait(poll, hold)
    ELSE IdleWait(sr)

Body(presses, poll, hold, r, ok, horizon, history, sr, w, elapsed) ==
    LET seen == (presses > 0) /\ WaitEntered(sr)
        due == ResumeDue(power, elapsed)
        button == seen \/ due
        newPower == ProcessButton(power, seen, due)
        dButton == IF button
                   THEN flashFast(SwitchFlashes(power)) + BUTTON_PAUSE
                   ELSE 0
        dRead == ReadTime(ok, newPower)
        temp == U8(constrain(r[1], 0, TEMP_CEIL))
        humi == U8(constrain(r[2], 0, HUMI_CEIL))
        volt == constrain(r[3], VOLT_FLOOR, VOLT_CEIL)
        newIndex == IF ok THEN NextIndex(index) ELSE index
        newT == Stored(ok, t, newIndex, temp)
        newH == Stored(ok, h, newIndex, humi)
        newV == Stored(ok, v, newIndex, U16(volt))
        ta == Average(newT, TMIN_START)
        ha == Average(newH, TMIN_START)
        va == Average(newV, VMIN_START)
    IN  /\ pc = "loop"
        /\ seen => poll \in 1 .. PollsLeft(sr)
        /\ ~seen => (poll = 1 /\ hold = 0)
        /\ power' = newPower
        /\ led' = IF button THEN SwitchLed(power) ELSE led
        /\ index' = newIndex
        /\ t' = newT
        /\ h' = newH
        /\ v' = newV
        /\ tempAvg' = ta
        /\ humiAvg' = ha
        /\ voltAvg' = va
        /\ fan' = Decide(ta, ha, va, ModeAtDecision(power, newPower))
        /\ pressed' = seen
        /\ resume' = due
        /\ ripe' = (sinceChange + w > RESUMETIME)
        /\ physPresses' = presses
        /\ statusOK' = ok
        /\ trail' = IF button /\ history
                    THEN (IF Len(trail) < 3 THEN trail ELSE Tail(trail))
                         \o <<power>>
                    ELSE trail
        /\ sinceChange' = IF button
                          THEN dButton + dRead
                          ELSE sinceChange + w + dRead
        /\ sinceChange' <= horizon
        /\ waited' = w
        /\ seenPoll' = IF seen THEN poll ELSE 0
        /\ heldSteps' = IF seen THEN hold ELSE 0
        /\ recent' = IF ok
                     THEN (IF Len(recent) < NSAMPLES THEN recent
                           ELSE Tail(recent)) \o << <<temp, humi, volt>> >>
                     ELSE recent
        /\ autos' = IF ~history THEN autos
                    ELSE IF seen THEN 0 ELSE IF due THEN autos + 1 ELSE autos
        /\ pressAge' = IF ~history THEN pressAge
                       ELSE IF seen THEN 0
                       ELSE IF due THEN pressAge + sinceChange + w
                       ELSE pressAge
        /\ pc' = pc

\* loop() with the time kept as the two differences the code forms
Loop(presses, poll, hold, r, ok, horizon, history) ==
    /\ Body(presses, poll, hold, r, ok, horizon, history, sinceRead,
            Waited(presses, poll, hold, sinceRead),
            U32(sinceButton + Waited(presses, poll, hold, sinceRead)))
    /\ sinceButton' = IF Stamped(pressed', resume')
                      THEN U32(BUTTON_PAUSE + ReadTime(ok, power'))
                      ELSE U32(sinceButton + waited' + ReadTime(ok, power'))
    /\ sinceRead' = 0
    /\ UNCHANGED clocks

(***************************************************************************)
(* Sensor runs: varied readings and sensor faults, followed for a few      *)
(* cycles after every mode change                                          *)
(***************************************************************************)
ShortHorizon == ShortCycles * (CYCLETIME + 5000)

Init == InitWith(SeedReadings, FALSE)

\* the presses and holds tried in a cycle: none, the shortest and the longest
PressCounts == {0, 1, MaxPresses}
Holds == {0, MaxHold}

Cycle == \E presses \in PressCounts, poll \in PressPolls(sinceRead),
            hold \in Holds, ok \in BOOLEAN :
            \E r \in (IF ok THEN Readings ELSE {<<0, 0, 0>>}) :
                Loop(presses, poll, hold, r, ok, ShortHorizon, TRUE)

Next == Cycle

Spec == Init /\ [][Next]_vars

(***************************************************************************)
(* Timer runs: a steady sensor, followed past the resume time              *)
(***************************************************************************)
LongHorizon == RESUMETIME + IdleCycles * (CYCLETIME + 5000)

InitTimer == InitWith(SteadyReadings, FALSE)

\* a cycle in which the user leaves the button alone
IdleCycle == \E r \in SteadyReadings :
                Loop(0, 1, 0, r, TRUE, LongHorizon, TRUE)

\* a cycle in which the user presses the button
PressCycle == \E presses \in 1 .. MaxPresses, poll \in PressPolls(sinceRead),
                 hold \in 0 .. MaxHold, r \in SteadyReadings :
                 Loop(presses, poll, hold, r, TRUE, LongHorizon, TRUE)

NextTimer == IdleCycle \/ PressCycle

SpecTimer == InitTimer /\ [][NextTimer]_vars

\* the same cycles without the record of the time since the last press
IdleOnly == \E r \in SteadyReadings :
               Loop(0, 1, 0, r, TRUE, LongHorizon, FALSE)

\* a cycle with one short press
ShortPress == \E poll \in PressPolls(sinceRead), r \in SteadyReadings :
                 Loop(1, poll, 0, r, TRUE, LongHorizon, FALSE)

NextTimerFair == IdleOnly \/ ShortPress

\* loop() is called again and again; the user is free never to press
SpecTimerFair == InitTimer /\ [][NextTimerFair]_vars /\ WF_vars(IdleOnly)

(***************************************************************************)
(* Clock runs: loop() on the registers millis(), lastRead and lastButton,  *)
(* taken up shortly before millis() wraps                                  *)
(***************************************************************************)
WaitPolls == CYCLETIME \div POLL

\* the test of the wait loop at poll k: millis() - lastRead >= CYCLETIME
Fails(m, last, k) ==
    LET now == Add32(m, k * POLL)
        since == Sub32(now, last)
    IN  AsInt(since) >= CYCLETIME

\* no wrap is in reach of this wait: millis() stays below 2^32 for twice the
\* polls of a cycle, and lastRead is not ahead of millis()
Plain(m, last) ==
    /\ m[1] < Word - 1
    /\ last[1] < m[1] \/ (last[1] = m[1] /\ last[2] <= m[2])

\* while (millis() - lastRead < CYCLETIME) myDelay(100): the number of polls
\* after which the test first fails.  Where a wrap is in reach the test is
\* made poll by poll on the registers, up to twice the polls of a cycle;
\* elsewhere the registers are plain numbers and the count is IdleWait's.
ExitPoll(m, last) ==
    IF Plain(m, last)
    THEN LET since == SubW(m, last)
         IN  IdleWait(AsInt(since)) \div POLL
    ELSE LET S == {k \in 0 .. (2 * WaitPolls) : Fails(m, last, k)}
         IN  IF S = {} THEN 2 * WaitPolls + 1
             ELSE CHOOSE k \in S : \A j \in S : k <= j

RegWait(m, last) == POLL * ExitPoll(m, last)

\* the time spent in the wait loop; a press seen sets
\* lastRead = millis() - CYCLETIME and the loop tests again
ClockWait(presses, poll, hold) ==
    LET sinceLast == Sub32(millis, lastRead)
        now == millis
    IN  IF (presses > 0) /\ WaitEntered(AsInt(sinceLast))
        THEN LET atPress == Add32(now, PressWait(poll, hold))
                 fast == Sub32(atPress, Const32(CYCLETIME))
             IN  PressWait(poll, hold) + RegWait(atPress, fast)
        ELSE RegWait(now, lastRead)

ClockedLoop(presses, poll, hold, r, ok, horizon) ==
  \E w \in {ClockWait(presses, poll, hold)} :
    LET atTest == AddW(uptime, w)
        sinceLast == Sub32(millis, lastRead)
        sr == AsInt(sinceLast)
        sinceStamp == Sub32(Wrap32(atTest), lastButton)
        elapsed == AsInt(sinceStamp)
    IN  /\ Body(presses, poll, hold, r, ok, horizon, TRUE, sr, w, elapsed)
        /\ LET switched == pressed' \/ resume'
               atStamp == AddW(atTest, IF switched
                                       THEN flashFast(SwitchFlashes(power))
                                       ELSE 0)
               atRead == AddW(atStamp, (IF switched THEN BUTTON_PAUSE ELSE 0)
                                         + ReadTime(ok, power'))
               stamped == Stamped(pressed', resume')
           IN  /\ uptime' = atRead
               /\ lastRead' = Wrap32(atRead)
               /\ lastButton' = IF stamped THEN Wrap32(atStamp)
                                ELSE lastButton
               /\ stampUp' = IF stamped THEN atStamp ELSE stampUp
               /\ sinceRead' = 0
               /\ sinceButton' = LET since == Sub32(Wrap32(atRead),
                                                    IF stamped
                                                    THEN Wrap32(atStamp)
                                                    ELSE lastButton)
                                  IN  AsInt(since)

\* the time lead ms before millis() wraps, lead >= 1
BeforeWrap(lead) == <<Word - 1 - ((lead - 1) \div Word),
                      Word - 1 - ((lead - 1) % Word)>>

\* how long before the wrap a run is taken up
WrapLeads == {500, CYCLETIME + 5000, RESUMETIME \div 2, RESUMETIME + 10000}

\* the controller at the end of a cycle, in high since power-up with the
\* button never pressed and the sensor steady
LateStart(r, lead) ==
    /\ power = "high"
    /\ led = 255
    /\ index = 0
    /\ t = [i \in Slots |-> r[1]]
    /\ h = [i \in Slots |-> r[2]]
    /\ v = [i \in Slots |-> r[3]]
    /\ tempAvg = r[1]
    /\ humiAvg = r[2]
    /\ voltAvg = r[3]
    /\ fan = Decide(r[1], r[2], r[3], "high")
    /\ sinceRead = 0
    /\ sinceButton = AsInt(BeforeWrap(lead))
    /\ pressed = FALSE
    /\ resume = FALSE
    /\ ripe = TRUE
    /\ physPresses = 0
    /\ statusOK = TRUE
    /\ trail = << >>
    /\ sinceChange = 0
    /\ waited = CYCLETIME
    /\ seenPoll = 0
    /\ heldSteps = 0
    /\ recent = [i \in 1 .. NSAMPLES |-> r]
    /\ autos = 0
    /\ pressAge = 0
    /\ uptime = BeforeWrap(lead)
    /\ lastRead = BeforeWrap(lead)
    /\ lastButton = <<0, 0>>
    /\ stampUp = <<0, 0>>
    /\ pc = "loop"

InitWrap ==
    \/ InitWith(SteadyReadings, TRUE)
    \/ \E r \in SteadyReadings, lead \in WrapLeads : LateStart(r, lead)

\* the user presses only in the first WrapCycles cycles after a mode change
\* or after the run is taken up, and until two events have been processed
PressWindow == WrapCycles * CYCLETIME

\* high is followed for a few cycles, off and low past the resume time
WrapHorizon == IF power = "high" THEN ShortHorizon ELSE LongHorizon

WrapIdle == \E r \in SteadyReadings :
                ClockedLoop(0, 1, 0, r, TRUE, WrapHorizon)

WrapPress ==
    /\ Len(trail) < 2
    /\ sinceChange < PressWindow
    /\ \E poll \in PressPolls(sinceRead), r \in SteadyReadings :
            ClockedLoop(1, poll, 0, r, TRUE, WrapHorizon)

NextWrap == WrapIdle \/ WrapPress

SpecWrap == InitWrap /\ [][NextWrap]_vars

(***************************************************************************)
(* The fan decision on its own: every average, every mode                  *)
(***************************************************************************)
VoltAverages == {0, VOLT_CEIL} \cup ((VIN_LOW - VoltSpan) .. (VIN_GOOD + VoltSpan))

InitDecide ==
    /\ power \in Modes
    /\ tempAvg \in 0 .. TEMP_CEIL
    /\ humiAvg \in 0 .. HUMI_CEIL
    /\ voltAvg \in VoltAverages
    /\ led = 255
    /\ fan = 0
    /\ index = 0
    /\ t = [i \in Slots |-> 0]
    /\ h = [i \in Slots |-> 0]
    /\ v = [i \in Slots |-> 0]
    /\ sinceRead = 0
    /\ sinceButton = 0
    /\ pressed = FALSE
    /\ resume = FALSE
    /\ ripe = FALSE
    /\ physPresses = 0
    /\ statusOK = TRUE
    /\ trail = << >>
    /\ sinceChange = 0
    /\ waited = 0
    /\ seenPoll = 0
    /\ heldSteps = 0
    /\ recent = << >>
    /\ autos = 0
    /\ pressAge = 0
    /\ uptime = <<0, 0>>
    /\ lastRead = <<0, 0>>
    /\ lastButton = <<0, 0>>
    /\ stampUp = <<0, 0>>
    /\ pc = "decide"

DecideStep ==
    /\ pc = "decide"
    /\ fan' = Decide(tempAvg, humiAvg, voltAvg, power)
    /\ pc' = "done"
    /\ UNCHANGED <<power, led, index, t, h, v, sinceRead, sinceButton,
                   tempAvg, humiAvg, voltAvg, pressed, resume, ripe,
                   physPresses, statusOK, trail, sinceChange,
                   waited, seenPoll, heldSteps, recent, autos, pressAge,
                   clocks>>

NextDecide == DecideStep

SpecDecide == InitDecide /\ [][NextDecide]_vars

(***************************************************************************)
(* The averages on their own: buffers of both firmware variants            *)
(***************************************************************************)
Samples5 == {100, VOLT_CEIL} \cup (20 .. (20 + SampleSpan))
Samples10 == {20, 21, VOLT_CEIL}

Buffers == [Slots -> Samples5] \cup [Slots10 -> Samples10]
             \cup {[i \in Slots |-> x] : x \in 0 .. VOLT_CEIL}
             \cup {[i \in Slots10 |-> x] : x \in 0 .. VOLT_CEIL}

InitAverage ==
    \E b \in Buffers :
        /\ t = [i \in DOMAIN b |-> U8(constrain(b[i], 0, TEMP_CEIL))]
        /\ h = [i \in DOMAIN b |-> U8(constrain(b[i], 0, HUMI_CEIL))]
        /\ v = [i \in DOMAIN b |-> U16(constrain(b[i], 0, VOLT_CEIL))]
        /\ power = "high"
        /\ led = 255
        /\ fan = 0
        /\ index = 0
        /\ sinceRead = 0
        /\ sinceButton = 0
        /\ tempAvg = 0
        /\ humiAvg = 0
        /\ voltAvg = 0
        /\ pressed = FALSE
        /\ resume = FALSE
        /\ ripe = FALSE
        /\ physPresses = 0
        /\ statusOK = TRUE
        /\ trail = << >>
        /\ sinceChange = 0
        /\ waited = 0
        /\ seenPoll = 0
        /\ heldSteps = 0
        /\ recent = << >>
        /\ autos = 0
        /\ pressAge = 0
        /\ uptime = <<0, 0>>
        /\ lastRead = <<0, 0>>
        /\ lastButton = <<0, 0>>
        /\ stampUp = <<0, 0>>
        /\ pc = "average"

Average5Step ==
    /\ pc = "average"
    /\ DOMAIN t = Slots
    /\ tempAvg' = Average(t, TMIN_START)
    /\ humiAvg' = Average(h, TMIN_START)
    /\ voltAvg' = Average(v, VMIN_START)
    /\ pc' = "averaged"
    /\ UNCHANGED <<power, led, fan, index, t, h, v, sinceRead, sinceButton,
                   pressed, resume, ripe, physPresses, statusOK, trail,
                   sinceChange, waited, seenPoll, heldSteps, recent, autos,
                   pressAge, clocks>>

Average10Step ==
    /\ pc = "average"
    /\ DOMAIN t = Slots10
    /\ tempAvg' = Average10(t, TMIN_START)
    /\ humiAvg' = Average10(h, TMIN_START)
    /\ voltAvg' = Average10(v, VMIN_START)
    /\ pc' = "averaged"
    /\ UNCHANGED <<power, led, fan, index, t, h, v, sinceRead, sinceButton,
                   pressed, resume, ripe, physPresses, statusOK, trail,
                   sinceChange, waited, seenPoll, heldSteps, recent, autos,
                   pressAge, clocks>>

NextAverage == Average5Step \/ Average10Step

SpecAverage == InitAverage /\ [][NextAverage]_vars

(***************************************************************************)
(* Properties of the power mode and the resume timer                      *)
(***************************************************************************)
Level(m) == CASE m = "off" -> 0 [] m = "low" -> 1 [] m = "high" -> 2
Follows(a, b) == Level(b) = (Level(a) + 1) % 3

\* C1: every processed button event moves the mode one step in the order
\* off -> low -> high -> off (trail holds the modes before the last three
\* processed events), so after three processed events the mode is the one
\* the first of them started from.
C1_CyclicRotation ==
    /\ \A i \in 1 .. Len(trail) :
          Follows(trail[i], IF i = Len(trail) THEN power ELSE trail[i + 1])
    /\ Len(trail) = 3 => power = trail[1]

C1_Witness == Len(trail) = 3 /\ trail[1] = "off" /\ pressed

\* C2: a change of mode in a cycle without a user press happens only from
\* a mode other than high, and only when more than RESUMETIME ms have
\* passed since the last change of mode.
C2_AutoResumeGuarded ==
    [][(~pressed' /\ power' # power) => (power # "high" /\ ripe')]_vars

C2_Witness == ~pressed /\ resume /\ power = "low"

\* C3: left alone, a reduced mode ends: from off or low the mode becomes
\* high, and it leaves high only in a cycle with a user press.
C3_ReturnsToHigh ==
    /\ (power # "high") ~> (power = "high")
    /\ [][(power = "high" /\ power' # "high") => pressed']_vars

C3_Witness == ~pressed /\ resume /\ power = "high" /\ ripe /\ fan > FAN_LOW

\* C4: one cycle changes the mode by at most one step; a press together
\* with an expired timer, or several presses in one cycle, give one step.
C4_OneStepPerCycle ==
    [][/\ power' = power \/ Follows(power, power')
       /\ (pressed' /\ ((ripe' /\ power # "high") \/ physPresses' >= 2))
             => Follows(power, power')]_vars

C4_Witness == pressed /\ resume /\ ripe /\ physPresses >= 2

\* C5: the mode enters off, or drops to a lower level, only in a cycle with
\* a user press; without a press it only moves off -> low or low -> high.
C5_DownOnlyByPress ==
    [][/\ ((power' = "off" /\ power # "off") \/ Level(power') < Level(power))
             => pressed'
       /\ (~pressed' /\ power' # power)
             => <<power, power'>> \in {<<"off", "low">>, <<"low", "high">>}]_vars

C5_Witness == pressed /\ ~resume /\ power = "off" /\ physPresses = 1

(***************************************************************************)
(* Properties of the fan decision                                          *)
(***************************************************************************)
\* C6: below VIN_LOW, or in mode off, the duty is 0 whatever the other
\* inputs are.
C6_CutOff ==
    (pc = "done" /\ (voltAvg < VIN_LOW \/ power = "off")) => fan = 0

C6_Witness ==
    pc = "done" /\ voltAvg < VIN_LOW /\ power = "high" /\ tempAvg = 35

\* C7: with voltAvg >= VIN_LOW and the mode not off, and voltAvg < VIN_GOOD
\* or the mode low, the duty is FAN_LOW if an average is above its trigger
\* and 0 otherwise.
C7_BinaryBranch ==
    (/\ pc = "done"
     /\ voltAvg >= VIN_LOW
     /\ power # "off"
     /\ (voltAvg < VIN_GOOD \/ power = "low"))
    => fan = (IF tempAvg > TEMP_TRIGGER \/ humiAvg > HUMI_TRIGGER
              THEN 95 ELSE 0)

C7_Witness ==
    /\ pc = "done"
    /\ power = "low"
    /\ voltAvg >= VIN_GOOD
    /\ tempAvg = 29
    /\ humiAvg <= HUMI_TRIGGER
    /\ fan = 95

\* C8: with voltAvg >= VIN_GOOD and the mode high the duty is the larger
\* of the two ramps, computed here in unbounded integers.
FanFrom(avg, trigger, rise) ==
    IF avg >= trigger
    THEN (IF 95 + (avg - trigger) * rise < 255
          THEN 95 + (avg - trigger) * rise ELSE 255)
    ELSE 0

C8_ProportionalBranch ==
    (pc = "done" /\ voltAvg >= VIN_GOOD /\ power = "high")
    => LET fanT == FanFrom(tempAvg, 28, 40)
           fanH == FanFrom(humiAvg, 70, 8)
       IN  fan = (IF fanT > fanH THEN fanT ELSE fanH)

C8_Witness ==
    /\ pc = "done"
    /\ voltAvg >= VIN_GOOD
    /\ power = "high"
    /\ tempAvg = 32
    /\ humiAvg = 0
    /\ fan = 255

\* C9: with the mode high, voltAvg >= VIN_GOOD and the humidity fixed, the
\* duty does not fall when the temperature rises from the trigger upwards.
C9_MonotoneInTemp ==
    (/\ pc = "done"
     /\ power = "high"
     /\ voltAvg >= VIN_GOOD
     /\ tempAvg >= TEMP_TRIGGER)
    => \A t1 \in TEMP_TRIGGER .. tempAvg :
          Decide(t1, humiAvg, voltAvg, power) <= fan

C9_Witness ==
    /\ pc = "done"
    /\ power = "high"
    /\ voltAvg >= VIN_GOOD
    /\ tempAvg = 40
    /\ humiAvg = 72
    /\ fan = 255

\* C10 as stated: with voltAvg >= VIN_LOW and the mode not off, an average
\* equal to its trigger gives a duty other than 0.
C10_AtTriggerRuns ==
    (/\ pc = "done"
     /\ voltAvg >= VIN_LOW
     /\ power # "off"
     /\ (tempAvg = TEMP_TRIGGER \/ humiAvg = HUMI_TRIGGER))
    => fan # 0

\* C10 amended: with voltAvg >= VIN_LOW and the mode not off, an average
\* equal to its trigger gives a duty of at least FAN_LOW when voltAvg >=
\* VIN_GOOD and the mode is high; when voltAvg < VIN_GOOD or the mode is
\* low it gives FAN_LOW only if the other average is above its trigger,
\* and 0 otherwise.
C10_AtTriggerByBranch ==
    (/\ pc = "done"
     /\ voltAvg >= VIN_LOW
     /\ power # "off"
     /\ (tempAvg = TEMP_TRIGGER \/ humiAvg = HUMI_TRIGGER))
    => IF voltAvg >= VIN_GOOD /\ power = "high"
       THEN fan >= 95
       ELSE fan = (IF tempAvg > TEMP_TRIGGER \/ humiAvg > HUMI_TRIGGER
                   THEN 95 ELSE 0)

C10_Witness ==
    /\ pc = "done"
    /\ power = "high"
    /\ voltAvg >= VIN_GOOD
    /\ tempAvg = TEMP_TRIGGER
    /\ humiAvg < HUMI_TRIGGER
    /\ fan = 95

(***************************************************************************)
(* Properties of the averages                                              *)
(***************************************************************************)
RECURSIVE SumOver(_, _)
SumOver(buf, S) ==
    IF S = {} THEN 0
    ELSE LET i == CHOOSE j \in S : TRUE
         IN  buf[i] + SumOver(buf, S \ {i})

Greatest(buf) ==
    CHOOSE x \in {buf[i] : i \in DOMAIN buf} : \A i \in DOMAIN buf : buf[i] <= x
Least(buf) ==
    CHOOSE x \in {buf[i] : i \in DOMAIN buf} : \A i \in DOMAIN buf : x <= buf[i]
Trimmed(buf) == SumOver(buf, DOMAIN buf) - Greatest(buf) - Least(buf)
Uniform(buf) == \A i \in DOMAIN buf : buf[i] = buf[0]

\* C11: in the 5-sample firmware each average is the integer nearest to
\* (sum - one maximum - one minimum) / 3, and every reordering of the five
\* samples gives the same average.
C11_TrimmedMean ==
    (pc = "averaged" /\ DOMAIN t = Slots)
    => /\ 3 * tempAvg - Trimmed(t) \in -1 .. 1
       /\ 3 * humiAvg - Trimmed(h) \in -1 .. 1
       /\ 3 * voltAvg - Trimmed(v) \in -1 .. 1
       /\ \A q \in Permutations(Slots) :
             /\ Average([i \in Slots |-> t[q[i]]], TMIN_START) = tempAvg
             /\ Average([i \in Slots |-> h[q[i]]], TMIN_START) = humiAvg
             /\ Average([i \in Slots |-> v[q[i]]], VMIN_START) = voltAvg

C11_Witness ==
    /\ pc = "averaged"
    /\ v = [i \in Slots |-> <<20, 22, 21, 23, 100>>[i + 1]]
    /\ voltAvg = 22

\* C12: in both variants a buffer whose samples all equal x has x as its
\* average.
C12_UniformBuffer ==
    pc = "averaged"
    => /\ Uniform(t) => tempAvg = t[0]
       /\ Uniform(h) => humiAvg = h[0]
       /\ Uniform(v) => voltAvg = v[0]

C12_Witness ==
    /\ pc = "averaged"
    /\ DOMAIN v = Slots10
    /\ Uniform(v)
    /\ v[0] = 238
    /\ voltAvg = 238

\* C16: in the 10-sample firmware each average is
\* (sum - one maximum - one minimum) / 8 rounded up.
C16_CeilingOfEighth ==
    (pc = "averaged" /\ DOMAIN t = Slots10)
    => /\ tempAvg = (Trimmed(t) + 7) \div 8
       /\ humiAvg = (Trimmed(h) + 7) \div 8
       /\ voltAvg = (Trimmed(v) + 7) \div 8

(***************************************************************************)
(* Properties of the sample buffers, of the duty and of the wait           *)
(***************************************************************************)
\* the slot written k valid readings ago
SlotBack(k) == (index + NSAMPLES - k) % NSAMPLES

\* C13: the write index stays in 0..4 and the slot written k valid readings
\* ago holds, in all three arrays, the k-th most recent valid reading
\* (recent lists the last five of them, oldest first), so after five valid
\* readings the arrays hold exactly the five most recent ones.
C13_RingBuffer ==
    pc = "loop"
    => /\ index \in 0 .. 4
       /\ \A k \in 0 .. (Len(recent) - 1) :
             LET e == recent[Len(recent) - k]
             IN  /\ t[SlotBack(k)] = e[1]
                 /\ h[SlotBack(k)] = e[2]
                 /\ v[SlotBack(k)] = e[3]

C13_Witness ==
    /\ pc = "loop"
    /\ statusOK
    /\ index = 0
    /\ Len(recent) = NSAMPLES
    /\ recent[1] = <<40, 100, 350>>
    /\ recent[5] = <<24, 60, 238>>

\* C14: a cycle whose sensor status is not OK leaves the three sample arrays
\* and the write index as they were.
C14_FaultKeepsBuffer ==
    [][~statusOK' => UNCHANGED <<t, h, v, index>>]_vars

C14_Witness ==
    /\ pc = "loop"
    /\ ~statusOK
    /\ index = 2
    /\ t[2] = 40
    /\ t[3] = 24

\* a cycle has been completed before this one
Ran == sinceRead = 0

\* C15 as stated: in every cycle with an invalid reading the duty written
\* equals the duty written by the cycle before.
C15_FaultKeepsDuty ==
    [][(~statusOK' /\ Ran) => fan' = fan]_vars

\* C15: in every cycle after the first with an invalid reading and no mode
\* transition, the duty written equals the duty written by the cycle before.
C15_FaultKeepsDutyInMode ==
    [][(~statusOK' /\ Ran /\ ~pressed' /\ ~resume') => fan' = fan]_vars

C15_Witness ==
    /\ pc = "loop"
    /\ ~statusOK
    /\ ~pressed
    /\ ~resume
    /\ Len(recent) >= 3
    /\ fan > FAN_LOW

\* C17: the duty written at the end of a cycle is 0 or lies in
\* FAN_LOW..FAN_HIGH.
C17_DutyRange ==
    pc = "loop" => (fan = 0 \/ fan \in FAN_LOW .. FAN_HIGH)

C17_Witness ==
    /\ pc = "loop"
    /\ Ran
    /\ fan = FAN_HIGH
    /\ tempAvg = TEMP_CEIL
    /\ Len(trail) >= 1

\* C18: the duty written at the end of a cycle is the decision for that
\* cycle's averages under the mode as it is after the cycle's transition; a
\* press that moves high to off gives duty 0 in the same cycle.
C18_DutyUsesNewMode ==
    (pc = "loop" /\ Ran)
    => /\ fan = Decide(tempAvg, humiAvg, voltAvg, power)
       /\ (pressed /\ power = "off") => fan = 0

C18_Witness ==
    /\ pc = "loop"
    /\ pressed
    /\ power = "off"
    /\ fan = 0
    /\ tempAvg >= TEMP_TRIGGER
    /\ voltAvg >= VIN_GOOD

\* C19: a press seen at poll seenPoll ends the wait after the two debounce
\* delays and the hold, without waiting for the rest of the cycle time, and
\* the cycle that follows rotates the mode by exactly one step.
C19_PressEndsWait ==
    [][pressed' => /\ Follows(power, power')
                   /\ waited' = seenPoll' * POLL + DEBOUNCE
                                  + heldSteps' * HOLDSTEP + DEBOUNCE
                   /\ (seenPoll' = 1 => sinceRead + waited' < CYCLETIME)]_vars

C19_Witness ==
    /\ pc = "loop"
    /\ pressed
    /\ physPresses = MaxPresses
    /\ seenPoll = 1
    /\ heldSteps = MaxHold
    /\ waited = 300 + 10 * MaxHold
    /\ power = "off"

\* C20: every processed transition restarts the resume timer (after it the
\* time since lastButton is the pause and the reading that follow the
\* switch), an auto-resume comes more than RESUMETIME after the transition
\* before it, and after n auto-resumes in a row more than n * RESUMETIME
\* have passed since the last press.
C20_TimerRestarts ==
    /\ [](((pressed \/ resume) /\ pc = "loop" /\ Ran)
              => sinceButton = BUTTON_PAUSE + SETTLE + ShowTime(power))
    /\ [](autos >= 1 => pressAge > autos * RESUMETIME)
    /\ [][(resume' /\ ~pressed') => pressAge' - pressAge > RESUMETIME]_vars

C20_Witness ==
    /\ pc = "loop"
    /\ autos = 2
    /\ power = "high"
    /\ resume
    /\ pressAge > 2 * RESUMETIME

(***************************************************************************)
(* Properties of the clock                                                 *)
(***************************************************************************)
\* the time that has really passed since lastButton was set, at the
\* auto-resume test of the cycle just run
SinceStamp == AsInt(SubW(AddW(uptime, waited'), stampUp))

\* C21: with millis(), lastRead and lastButton 32 bits wide, also across a
\* wrap of millis(): a cycle auto-resumes exactly when the mode is not high
\* and more than RESUMETIME have really passed since lastButton was set, and
\* the wait loop lasts the cycle time (nothing in the first cycle after
\* power-up), or up to the end of a press and no longer.
C21_WrapSafe ==
    [][/\ resume' = (power # "high" /\ SinceStamp > RESUMETIME)
       /\ waited' = IF pressed'
                    THEN seenPoll' * POLL + DEBOUNCE
                           + heldSteps' * HOLDSTEP + DEBOUNCE
                    ELSE IF Ran THEN CYCLETIME ELSE 0]_vars

C21_Witness ==
    /\ pc = "loop"
    /\ resume
    /\ ~pressed
    /\ power = "low"
    /\ stampUp[1] >= Word
    /\ AsInt(SubW(stampUp, <<Word, 0>>)) < RESUMETIME

====
